---------------------------- MODULE Spec2Model ----------------------------
(***************************************************************************)
(* Model of the two CoppeliaSim robot scripts:                             *)
(*   Line_following_task/mindstorms.py  (Motor, ColorSensor)               *)
(*   Line_following_task/lineMaze.py    (classifiers, follow_line, main)   *)
(*   Object_sorting_task/wall_e_script.py (sensor getters, decoder, main)  *)
(*                                                                         *)
(* Abstractions.  Floating point numbers are modelled exactly: a motor     *)
(* speed is an integer, a camera sample in [0,1] is a number of            *)
(* thousandths (0..1000), and a mean / percentage / ratio is a fraction    *)
(* [num, den] with the IEEE special values den = 0 /\ num > 0 (+inf) and   *)
(* den = 0 /\ num = 0 (nan), which is what numpy scalars produce instead   *)
(* of raising.  A raised Python exception is outcome = "raised".  Of the    *)
(* console output only the scripts' status lines are kept (out); the       *)
(* values printed by follow_line and is_red_detected are not.              *)
(***************************************************************************)
EXTENDS Integers, Sequences, FiniteSets, TLC

VARIABLES
    motors,             \* the Motor instances, in construction order
    Motor_other_motor,  \* the class attribute Motor.other_motor (0 = None)
    lastCmd,            \* history: per motor, the argument of its latest run
    image,              \* ColorSensor.image
    sent,               \* the signals written to the transport by the last operation
    lastOp,             \* the last operation called
    lastArg,            \* its inputs (arguments and transport responses)
    outcome,            \* "ok" | "raised" | "none"
    ret,                \* its return value
    unpacked,           \* whether it called sim.simxUnpackFloats
    wire,               \* the response the transport gives to the next sensor read
    script, pc, clientID, out,   \* the running script, its position, handle, stdout
    touched             \* names of the signals read or written so far

vars == <<motors, Motor_other_motor, lastCmd, image, sent, lastOp, lastArg,
          outcome, ret, unpacked, wire, script, pc, clientID, out, touched>>

libVars    == <<motors, Motor_other_motor, lastCmd, image>>
callVars   == <<sent, lastOp, lastArg, outcome, ret, unpacked>>
scriptVars == <<script, pc, clientID, out>>

---------------------------------------------------------------------------
(* Bounds of the model *)

MaxMotors == 2      \* Motor instances constructed
MaxBuf    == 4      \* samples in a camera buffer (line-following runs)
MaxLen    == 12     \* samples in a camera buffer (decoder runs)
MaxBytes  == 12     \* bytes in a packed sensor signal

Speeds       == {-2, -1, 0, 3, 4, 5}     \* arguments of Motor.run
Samples      == {0, 400, 600}            \* camera samples, in thousandths
DecodeSamples == {399, 1000}             \* camera samples of the decoder runs
ReturnCodes  == {0, 1, 8}                \* simx return codes (0 = ok)
Bytes        == {0, 1}
ClientIDs    == {-1, 0, 1}               \* results of sim.simxStart

Ports == {"A", "B"}

\* Direction enum values
CLOCKWISE        == 1
COUNTERCLOCKWISE == -1
Directions == {CLOCKWISE, COUNTERCLOCKWISE}

NoImage == [kind |-> "none", res |-> 0, rc |-> 0, px |-> <<>>]
NoArg   == [m |-> 0, speed |-> 0, rc |-> 0, buf |-> <<>>]
NoWire  == [rc |-> 0, bytes |-> <<>>]

\* return values
RetNone      == [type |-> "none",  val |-> <<>>]
RetBool(b)   == [type |-> "bool",  val |-> <<b>>]
RetNumber(x) == [type |-> "number", val |-> <<x>>]
RetList(s)   == [type |-> "list",  val |-> s]

---------------------------------------------------------------------------
(* mindstorms.py: Motor *)

\* Attribute lookup self.other_motor: the instance attribute when one was
\* assigned, the class attribute otherwise.
OtherMotor(ms, cls, m) ==
    IF ms[m].other_motor # 0 THEN ms[m].other_motor ELSE cls

\* Motor.__init__: the new instance is appended; the first instance becomes
\* the class attribute, a later one links itself with the class attribute's
\* instance in both directions.
MotorInitLink(ms, cls, port, dir) ==
    LET id  == Len(ms) + 1
        new == [motor_port |-> port, direction |-> dir, speed |-> 0,
                other_motor |-> IF cls = 0 THEN 0 ELSE cls]
    IN  IF cls = 0
        THEN [motors |-> Append(ms, new), cls |-> id]
        ELSE [motors |-> [Append(ms, new) EXCEPT ![cls].other_motor = id],
              cls |-> cls]

\* a run that also resets the other motors' stored speed
RunStore_zeroing(ms, m, speed) ==
    [k \in DOMAIN ms |-> [ms[k] EXCEPT !.speed = IF k = m THEN speed ELSE 0]]

\* Motor.run, line 82: self.speed = speed
RunStore(ms, m, speed) == [ms EXCEPT ![m].speed = speed]

\* a run that always puts the invoking motor first
RunPair_selfFirst(ms, cls, m) ==
    LET o == OtherMotor(ms, cls, m)
    IN  <<ms[m].speed * ms[m].direction, ms[o].speed * ms[o].direction>>

\* Motor.run, lines 83-89: the pair handed to __set_speed
RunPair(ms, cls, m) ==
    LET o       == OtherMotor(ms, cls, m)
        speed_l == ms[m].speed * ms[m].direction
        speed_r == ms[o].speed * ms[o].direction
    IN  IF ms[m].motor_port = "A" THEN <<speed_l, speed_r>>
                                  ELSE <<speed_r, speed_l>>

\* Motor.__set_speed: one "motors" string signal carrying the packed pair
MotorsSignal(pair) == [signal |-> "motors", left |-> pair[1], right |-> pair[2]]

\* The effect of m.run(speed) on the pair (motors, signals sent so far)
RunEffect(st, cls, m, speed) ==
    LET ms2 == RunStore(st.motors, m, speed)
    IN  [motors |-> ms2,
         sent   |-> Append(st.sent, MotorsSignal(RunPair(ms2, cls, m)))]

\* Motor(motor_port, direction, clientID)
MotorCall(port, dir) ==
    /\ LET r == MotorInitLink(motors, Motor_other_motor, port, dir)
       IN  /\ motors' = r.motors
           /\ Motor_other_motor' = r.cls
    /\ lastCmd' = Append(lastCmd, 0)
    /\ sent' = <<>>
    /\ lastOp' = "Motor"
    /\ lastArg' = [NoArg EXCEPT !.m = Len(motors) + 1]
    /\ outcome' = "ok"
    /\ ret' = RetNone
    /\ unpacked' = FALSE
    /\ UNCHANGED <<image, wire, touched>>

\* m.run(speed)
RunCall(m, speed) ==
    /\ LET r == RunEffect([motors |-> motors, sent |-> <<>>],
                          Motor_other_motor, m, speed)
       IN  /\ motors' = r.motors
           /\ sent' = r.sent
    /\ lastCmd' = [lastCmd EXCEPT ![m] = speed]
    /\ lastOp' = "run"
    /\ lastArg' = [NoArg EXCEPT !.m = m, !.speed = speed]
    /\ outcome' = "ok"
    /\ ret' = RetNone
    /\ unpacked' = FALSE
    /\ touched' = touched \cup {"motors"}
    /\ UNCHANGED <<Motor_other_motor, image, wire>>

NewMotor(port, dir) ==
    /\ Len(motors) < MaxMotors
    /\ MotorCall(port, dir)
    /\ UNCHANGED scriptVars

Run(m, speed) ==
    /\ m \in 1..Len(motors)
    /\ RunCall(m, speed)
    /\ UNCHANGED scriptVars

---------------------------------------------------------------------------
(* Exact arithmetic for numpy's float scalars *)

RECURSIVE Gcd(_, _)
Gcd(a, b) == IF b = 0 THEN a ELSE Gcd(b, a % b)

\* the fraction n / d in lowest terms (n, d >= 0); 1/0 is +inf and 0/0 is nan
Frac(n, d) ==
    LET g == Gcd(n, d)
    IN  IF g = 0 THEN [num |-> 0, den |-> 0] ELSE [num |-> n \div g, den |-> d \div g]
IsNan(q)   == q.den = 0 /\ q.num = 0
IsInf(q)   == q.den = 0 /\ q.num > 0

\* a + b (operands are non-negative; nan is contagious)
FAdd(a, b) ==
    IF IsNan(a) \/ IsNan(b) THEN Frac(0, 0)
    ELSE IF IsInf(a) \/ IsInf(b) THEN Frac(1, 0)
    ELSE Frac(a.num * b.den + b.num * a.den, a.den * b.den)

\* a / b: a numpy scalar division by zero gives inf (nan for 0/0) and a
\* RuntimeWarning; it does not raise.
FDiv(a, b) ==
    IF IsNan(a) \/ IsNan(b) THEN Frac(0, 0)
    ELSE IF IsInf(a) THEN (IF IsInf(b) THEN Frac(0, 0) ELSE Frac(1, 0))
    ELSE IF IsInf(b) THEN Frac(0, 1)
    ELSE IF b.num = 0 THEN (IF a.num = 0 THEN Frac(0, 0) ELSE Frac(1, 0))
    ELSE Frac(a.num * b.den, a.den * b.num)

\* a < b and a > b; every comparison with nan is false
FLt(a, b) ==
    IF IsNan(a) \/ IsNan(b) THEN FALSE
    ELSE IF IsInf(a) THEN FALSE
    ELSE IF IsInf(b) THEN TRUE
    ELSE a.num * b.den < b.num * a.den
FGt(a, b) == FLt(b, a)

RECURSIVE SumSeq(_)
SumSeq(s) == IF s = <<>> THEN 0 ELSE s[1] + SumSeq(Tail(s))

\* int(x): truncation toward zero of n / d  (d > 0)
IntTrunc(n, d) == IF n >= 0 THEN n \div d ELSE -((-n) \div d)

---------------------------------------------------------------------------
(* mindstorms.py: ColorSensor;  wall_e_script.py: image_correction *)

Raised == [ok |-> FALSE, val |-> NoImage]

\* int(x * 255) for a sample x given in thousandths
Scale255(x) == IntTrunc(x * 255, 1000)

\* np.array(image).reshape((res, res, 3)): row-major, channel innermost
Reshape(ints, res) ==
    [i \in 1..res |-> [j \in 1..res |-> [c \in 1..3 |->
        ints[3 * ((i - 1) * res + (j - 1)) + c]]]]

\* a flip of the column axis instead
FlipRows_axis1(a) ==
    [i \in 1..Len(a) |-> [j \in 1..Len(a[i]) |-> a[i][Len(a[i]) + 1 - j]]]

\* np.flip(m=image, axis=0)
FlipRows(a) == [i \in 1..Len(a) |-> a[Len(a) + 1 - i]]

\* image_correction(image, res): raises ValueError when the samples do not
\* fill a res x res x 3 array
image_correction(buf, res) ==
    LET ints == [k \in 1..Len(buf) |-> Scale255(buf[k])]
    IN  IF Len(ints) # res * res * 3 THEN Raised
        ELSE [ok |-> TRUE,
              val |-> [kind |-> "frame", res |-> res, rc |-> 0,
                       px |-> FlipRows(Reshape(ints, res))]]

\* res = int(np.sqrt(len(image) / 3))
Resolution(len) ==
    CHOOSE r \in 0..len : 3 * r * r <= len /\ 3 * (r + 1) * (r + 1) > len

\* _get_image_sensor / get_image_small_cam / get_image_top_cam on the
\* transport's response: a frame, the nonzero return code, or an exception
GetImageSensor(resp) ==
    IF resp.rc = 0
    THEN image_correction(resp.buf, Resolution(Len(resp.buf)))
    ELSE [ok |-> TRUE,
          val |-> [kind |-> "code", res |-> 0, rc |-> resp.rc, px |-> <<>>]]

\* the values of image[:, :, c]
Channel(img, c) ==
    [k \in 1..(img.res * img.res) |->
        img.px[((k - 1) \div img.res) + 1][((k - 1) % img.res) + 1][c]]

\* np.mean(self.image[:, :, c]) / 255 * 100; the mean of no value is nan
ChannelPercent(img, c) ==
    Frac(100 * SumSeq(Channel(img, c)), 255 * img.res * img.res)

\* ColorSensor.reflection: subscripting an int image raises TypeError
reflection(img) ==
    IF img.kind # "frame" THEN [ok |-> FALSE, val |-> Frac(0, 0)]
    ELSE [ok |-> TRUE, val |-> ChannelPercent(img, 1)]

\* ColorSensor.rgb
rgb(img) ==
    IF img.kind # "frame" THEN [ok |-> FALSE, val |-> <<>>]
    ELSE [ok |-> TRUE, val |-> <<ChannelPercent(img, 1), ChannelPercent(img, 2),
                                 ChannelPercent(img, 3)>>]

---------------------------------------------------------------------------
(* lineMaze.py *)

\* left_motor and right_motor, by construction order (lines 62-63)
LeftMotor  == 1
RightMotor == 2

red_ratio_threshold  == Frac(3, 2)
blue_ratio_threshold == Frac(3, 2)
threshold == 40

\* a non-strict comparison with the threshold
RedDecision_atLeast(c) ==
    ~FLt(FDiv(c[1], FAdd(c[2], c[3])), red_ratio_threshold)
    /\ ~IsNan(FDiv(c[1], FAdd(c[2], c[3])))

\* is_red_detected on the sensor's (red, green, blue)
RedDecision(c) == FGt(FDiv(c[1], FAdd(c[2], c[3])), red_ratio_threshold)

\* is_blue_detected on the sensor's (red, green, blue)
BlueDecision(c) == FGt(FDiv(c[3], FAdd(c[1], c[2])), blue_ratio_threshold)

\* "reflection <= threshold"
Steering_atMost(refl) ==
    IF ~FGt(refl, Frac(threshold, 1)) /\ ~IsNan(refl) THEN <<-1, 4>> ELSE <<4, -1>>

\* both wheels driven forward
Steering_forward(refl) ==
    IF FLt(refl, Frac(threshold, 1)) THEN <<1, 4>> ELSE <<4, 1>>

\* follow_line, lines 49-54: the (left, right) speeds commanded
Steering(refl) ==
    IF FLt(refl, Frac(threshold, 1)) THEN <<-1, 4>> ELSE <<4, -1>>

\* is_red_detected(color_sensor)
is_red_detected ==
    /\ outcome # "raised"
    /\ image.kind # "none"
    /\ LET c == rgb(image)
       IN  IF c.ok
           THEN /\ outcome' = "ok"
                /\ ret' = RetBool(RedDecision(c.val))
           ELSE /\ outcome' = "raised"
                /\ ret' = RetNone
    /\ lastOp' = "is_red_detected"
    /\ lastArg' = NoArg
    /\ sent' = <<>>
    /\ unpacked' = FALSE
    /\ UNCHANGED <<libVars, wire, touched, scriptVars>>

\* is_blue_detected(color_sensor)
is_blue_detected ==
    /\ outcome # "raised"
    /\ image.kind # "none"
    /\ LET c == rgb(image)
       IN  IF c.ok
           THEN /\ outcome' = "ok"
                /\ ret' = RetBool(BlueDecision(c.val))
           ELSE /\ outcome' = "raised"
                /\ ret' = RetNone
    /\ lastOp' = "is_blue_detected"
    /\ lastArg' = NoArg
    /\ sent' = <<>>
    /\ unpacked' = FALSE
    /\ UNCHANGED <<libVars, wire, touched, scriptVars>>

\* follow_line(color_sensor, left_motor, right_motor) with the transport
\* answering the camera read with resp
follow_line(left, right, resp) ==
    /\ outcome # "raised"
    /\ Len(motors) >= 2
    /\ lastOp' = "follow_line"
    /\ lastArg' = [NoArg EXCEPT !.rc = resp.rc, !.buf = resp.buf]
    /\ ret' = RetNone
    /\ unpacked' = (resp.rc = 0)
    /\ LET img == GetImageSensor(resp)
       IN  IF ~img.ok
           THEN /\ outcome' = "raised"
                /\ sent' = <<>>
                /\ touched' = touched \cup {"Sensors"}
                /\ UNCHANGED libVars
           ELSE LET refl == reflection(img.val)
                IN  /\ image' = img.val
                    /\ IF ~refl.ok
                       THEN /\ outcome' = "raised"
                            /\ sent' = <<>>
                            /\ touched' = touched \cup {"Sensors"}
                            /\ UNCHANGED <<motors, Motor_other_motor, lastCmd>>
                       ELSE LET s  == Steering(refl.val)
                                r1 == RunEffect([motors |-> motors, sent |-> <<>>],
                                                Motor_other_motor, left, s[1])
                                r2 == RunEffect(r1, Motor_other_motor, right, s[2])
                            IN  /\ motors' = r2.motors
                                /\ sent' = r2.sent
                                /\ lastCmd' = [lastCmd EXCEPT ![left] = s[1],
                                                              ![right] = s[2]]
                                /\ outcome' = "ok"
                                /\ touched' = touched \cup {"Sensors", "motors"}
                                /\ UNCHANGED Motor_other_motor
    /\ UNCHANGED <<wire, scriptVars>>

RECURSIVE SeqsUpTo(_, _)
SeqsUpTo(S, n) ==
    IF n = 0 THEN {<<>>}
    ELSE LET shorter == SeqsUpTo(S, n - 1)
         IN  shorter \cup {Append(s, x) : s \in {t \in shorter : Len(t) = n - 1}, x \in S}

\* what the transport may answer to a camera read
CameraResponses ==
    {[rc |-> 0, buf |-> b] : b \in SeqsUpTo(Samples, MaxBuf)}
    \cup {[rc |-> c, buf |-> <<>>] : c \in ReturnCodes \ {0}}

---------------------------------------------------------------------------
(* wall_e_script.py: sensor getters *)

\* the number a 4-byte word encodes (stands for struct.unpack('<f', word))
WordValue(w) == w[1] + 256 * w[2] + 65536 * w[3] + 16777216 * w[4]

\* sim.simxUnpackFloats: one float per complete 4-byte word
simxUnpackFloats(bytes) ==
    [i \in 1..(Len(bytes) \div 4) |->
        WordValue(SubSeq(bytes, 4 * i - 3, 4 * i))]

\* a getter that unpacks whatever the read returned
BumperResult_unchecked(resp) == RetList(simxUnpackFloats(resp.bytes))

\* get_bumper_sensor on the transport's response
BumperResult(resp) ==
    IF resp.rc = 0 THEN RetList(simxUnpackFloats(resp.bytes))
                   ELSE RetList(<<0, 0, 0>>)

\* get_sonar_sensor on the transport's response
SonarResult(resp) ==
    IF resp.rc = 0 THEN RetList(simxUnpackFloats(resp.bytes))
                   ELSE RetNumber(-1)

\* the getters call simxUnpackFloats under "if return_code == 0"
GetterUnpacks(resp) == resp.rc = 0

Getter(op, signal, result) ==
    /\ lastOp' = op
    /\ lastArg' = [NoArg EXCEPT !.rc = wire.rc]
    /\ outcome' = "ok"
    /\ ret' = result
    /\ unpacked' = GetterUnpacks(wire)
    /\ sent' = <<>>
    /\ touched' = touched \cup {signal}
    /\ UNCHANGED <<libVars, wire, scriptVars>>

get_bumper_sensor == Getter("get_bumper_sensor", "bumper_sensor", BumperResult(wire))
get_sonar_sensor  == Getter("get_sonar_sensor", "sonar_sensor", SonarResult(wire))

\* no operation has been called (since the transport's response changed)
NoCall ==
    /\ sent = <<>>
    /\ lastOp = "none"
    /\ lastArg = NoArg
    /\ outcome = "none"
    /\ ret = RetNone
    /\ unpacked = FALSE

ClearCall ==
    /\ sent' = <<>>
    /\ lastOp' = "none"
    /\ lastArg' = NoArg
    /\ outcome' = "none"
    /\ ret' = RetNone
    /\ unpacked' = FALSE

\* The simulator changes what the next read returns: a return code with an
\* empty signal, or one more byte of signal.
WireReset(rc) ==
    /\ wire' = [rc |-> rc, bytes |-> <<>>]
    /\ ClearCall
    /\ UNCHANGED <<libVars, touched, scriptVars>>

WireAppend(b) ==
    /\ Len(wire.bytes) < MaxBytes
    /\ wire' = [wire EXCEPT !.bytes = Append(@, b)]
    /\ ClearCall
    /\ UNCHANGED <<libVars, touched, scriptVars>>

---------------------------------------------------------------------------
(* The frame decoder on its own: color_sensor.image = _get_image_sensor() *)

DecodeResponses ==
    {[rc |-> 0, buf |-> b] : b \in SeqsUpTo(DecodeSamples, MaxLen)}
    \cup {[rc |-> c, buf |-> <<>>] : c \in ReturnCodes \ {0}}

ReadImage ==
    /\ lastOp = "none"
    /\ lastOp' = "_get_image_sensor"
    /\ LET img == GetImageSensor(lastArg)
       IN  IF img.ok
           THEN /\ outcome' = "ok"
                /\ image' = img.val
           ELSE /\ outcome' = "raised"
                /\ image' = image
    /\ unpacked' = (lastArg.rc = 0)
    /\ touched' = touched \cup {"Sensors"}
    /\ UNCHANGED <<motors, Motor_other_motor, lastCmd, sent, lastArg, ret, wire,
                   scriptVars>>

---------------------------------------------------------------------------
(* The two scripts, statement by statement.  An uncaught exception ends the *)
(* script at pc = "raised", with nothing more printed.                      *)

\* a test that takes handle 0 for a failure
Connected_positive(cid) == cid > 0

\* "if clientID != -1" (lineMaze.py line 58, wall_e_script.py line 98)
Connected(cid) == cid # -1

Stdout(line) == out' = Append(out, line)

\* sim.simxStart(...): the handle, or -1
Connect(name, next) ==
    /\ script = name
    /\ pc = "start"
    /\ \E cid \in ClientIDs : clientID' = cid
    /\ pc' = next
    /\ UNCHANGED <<libVars, callVars, wire, touched, script, out>>

\* the "if" branch is taken: print('Connected')
SayConnected(at, next) ==
    /\ pc = at
    /\ Connected(clientID)
    /\ Stdout("Connected")
    /\ pc' = next
    /\ UNCHANGED <<libVars, callVars, wire, touched, script, clientID>>

\* the "else" branch: print('Failed connecting to remote API server')
SayFailed(at, next) ==
    /\ pc = at
    /\ ~Connected(clientID)
    /\ Stdout("Failed connecting to remote API server")
    /\ pc' = next
    /\ UNCHANGED <<libVars, callVars, wire, touched, script, clientID>>

\* print('Program ended'), the statement after the if/else
SayEnded(at) ==
    /\ pc = at
    /\ Stdout("Program ended")
    /\ pc' = "done"
    /\ UNCHANGED <<libVars, callVars, wire, touched, script, clientID>>

LM_Connect   == Connect("lineMaze", "L58")
LM_Connected == SayConnected("L58", "L62")
LM_Failed    == SayFailed("L58", "L74")
LM_Ended     == SayEnded("L74")

LM_LeftMotor ==
    /\ pc = "L62"
    /\ MotorCall("A", CLOCKWISE)
    /\ pc' = "L63"
    /\ UNCHANGED <<script, clientID, out>>

LM_RightMotor ==
    /\ pc = "L63"
    /\ MotorCall("B", CLOCKWISE)
    /\ pc' = "L64"
    /\ UNCHANGED <<script, clientID, out>>

\* color_sensor = ColorSensor(clientID): __init__ reads the camera
LM_ColorSensor ==
    /\ pc = "L64"
    /\ \E resp \in CameraResponses :
          LET img == GetImageSensor(resp)
          IN  /\ lastArg' = [NoArg EXCEPT !.rc = resp.rc, !.buf = resp.buf]
              /\ unpacked' = (resp.rc = 0)
              /\ IF img.ok
                 THEN /\ image' = img.val
                      /\ outcome' = "ok"
                      /\ pc' = "L69"
                 ELSE /\ image' = image
                      /\ outcome' = "raised"
                      /\ pc' = "raised"
    /\ lastOp' = "ColorSensor"
    /\ sent' = <<>>
    /\ ret' = RetNone
    /\ touched' = touched \cup {"Sensors"}
    /\ UNCHANGED <<motors, Motor_other_motor, lastCmd, wire, script, clientID, out>>

\* while True: left_motor.run(speed=5)
LM_LoopLeft ==
    /\ pc = "L69"
    /\ RunCall(LeftMotor, 5)
    /\ pc' = "L70"
    /\ UNCHANGED <<script, clientID, out>>

\*             right_motor.run(speed=5)
LM_LoopRight ==
    /\ pc = "L70"
    /\ RunCall(RightMotor, 5)
    /\ pc' = "L69"
    /\ UNCHANGED <<script, clientID, out>>

WE_Connect   == Connect("wall_e", "W98")
WE_Connected == SayConnected("W98", "W102")
WE_Failed    == SayFailed("W98", "W109")
WE_Ended     == SayEnded("W109")

\* while True: set_speed(0, 0)
WE_Loop ==
    /\ pc = "W102"
    /\ sent' = <<MotorsSignal(<<0, 0>>)>>
    /\ lastOp' = "set_speed"
    /\ lastArg' = NoArg
    /\ outcome' = "ok"
    /\ ret' = RetNone
    /\ unpacked' = FALSE
    /\ touched' = touched \cup {"motors"}
    /\ pc' = "W102"
    /\ UNCHANGED <<libVars, wire, script, clientID, out>>

LoopPcs == {"L69", "L70", "W102"}

InitCommon ==
    /\ NoCall
    /\ wire = NoWire
    /\ script = "none"
    /\ pc = "none"
    /\ clientID = 0
    /\ out = <<>>
    /\ touched = {}

\* Motors: any two (or more) motors are constructed and then commanded.
InitMotors ==
    /\ motors = <<>>
    /\ Motor_other_motor = 0
    /\ lastCmd = <<>>
    /\ image = NoImage
    /\ InitCommon

NextMotors ==
    \/ \E port \in Ports, dir \in Directions : NewMotor(port, dir)
    \/ \E m \in 1..MaxMotors, speed \in Speeds : Run(m, speed)

SpecMotors == InitMotors /\ [][NextMotors]_vars

\* Line following: the objects of lineMaze.py lines 62-64, then any calls of
\* follow_line and the classifiers.
InitLine ==
    /\ LET m1 == MotorInitLink(<<>>, 0, "A", CLOCKWISE)
           m2 == MotorInitLink(m1.motors, m1.cls, "B", CLOCKWISE)
       IN  /\ motors = m2.motors
           /\ Motor_other_motor = m2.cls
    /\ lastCmd = <<0, 0>>
    /\ \E resp \in CameraResponses :
          /\ GetImageSensor(resp).ok
          /\ image = GetImageSensor(resp).val
    /\ InitCommon

NextLine ==
    \/ \E resp \in CameraResponses : follow_line(LeftMotor, RightMotor, resp)
    \/ is_red_detected
    \/ is_blue_detected

SpecLine == InitLine /\ [][NextLine]_vars

\* Sensors: the rover's getters against any transport response.
InitSensors ==
    /\ motors = <<>>
    /\ Motor_other_motor = 0
    /\ lastCmd = <<>>
    /\ image = NoImage
    /\ InitCommon

NextSensors ==
    \/ \E rc \in ReturnCodes : WireReset(rc)
    \/ \E b \in Bytes : WireAppend(b)
    \/ get_bumper_sensor
    \/ get_sonar_sensor

SpecSensors == InitSensors /\ [][NextSensors]_vars

\* Decoder: one camera read for each response of the transport.
InitDecode ==
    /\ motors = <<>>
    /\ Motor_other_motor = 0
    /\ lastCmd = <<>>
    /\ image = NoImage
    /\ sent = <<>>
    /\ lastOp = "none"
    /\ \E resp \in DecodeResponses :
          lastArg = [NoArg EXCEPT !.rc = resp.rc, !.buf = resp.buf]
    /\ outcome = "none"
    /\ ret = RetNone
    /\ unpacked = FALSE
    /\ wire = NoWire
    /\ script = "none"
    /\ pc = "none"
    /\ clientID = 0
    /\ out = <<>>
    /\ touched = {}

NextDecode == ReadImage

SpecDecode == InitDecode /\ [][NextDecode]_vars

\* Scripts: either script run from its first statement.
InitMain ==
    /\ motors = <<>>
    /\ Motor_other_motor = 0
    /\ lastCmd = <<>>
    /\ image = NoImage
    /\ NoCall
    /\ wire = NoWire
    /\ script \in {"lineMaze", "wall_e"}
    /\ pc = "start"
    /\ clientID = 0
    /\ out = <<>>
    /\ touched = {}

NextMain ==
    \/ LM_Connect \/ LM_Connected \/ LM_LeftMotor \/ LM_RightMotor
    \/ LM_ColorSensor \/ LM_LoopLeft \/ LM_LoopRight \/ LM_Failed \/ LM_Ended
    \/ WE_Connect \/ WE_Connected \/ WE_Loop \/ WE_Failed \/ WE_Ended

\* a script executes its next statement whenever it has one
SpecMain == InitMain /\ [][NextMain]_vars /\ WF_vars(NextMain)

---------------------------------------------------------------------------
(* Claims about Motor (SpecMotors) *)

\* the motor on the given port, when exactly one of two motors is on it
OnPort(port) == CHOOSE m \in 1..Len(motors) : motors[m].motor_port = port

TwoLinked ==
    /\ Len(motors) = 2
    /\ motors[1].motor_port # motors[2].motor_port

\* C1: with two linked motors, one on port A and one on port B, every run
\* sends exactly one "motors" signal whose first slot is A's last commanded
\* speed (0 if never commanded) times A's polarity and whose second slot is
\* B's, whichever motor was invoked.
C1_PackedByPort ==
    (TwoLinked /\ lastOp = "run") =>
        LET a == OnPort("A")
            b == OnPort("B")
        IN  sent = <<MotorsSignal(<<lastCmd[a] * motors[a].direction,
                                    lastCmd[b] * motors[b].direction>>)>>

\* B was constructed first; A holds 5 and B.run(-2) has just sent (5, -2)
C1_Witness ==
    /\ TwoLinked
    /\ motors[1].motor_port = "B"
    /\ motors[1].direction = CLOCKWISE /\ motors[2].direction = CLOCKWISE
    /\ lastOp = "run" /\ lastArg.m = 1 /\ lastArg.speed = -2
    /\ lastCmd = <<-2, 5>>
    /\ sent = <<MotorsSignal(<<5, -2>>)>>

\* a step that is a call of run on motor lastArg'.m changes that motor's
\* stored speed and nothing else of the motors
RunFrame ==
    (lastOp' = "run") =>
        /\ motors' = [motors EXCEPT ![lastArg'.m].speed = lastArg'.speed]
        /\ Motor_other_motor' = Motor_other_motor

\* C2: run writes only the invoking motor's stored speed (ports, polarities,
\* links and the other motor's speed are unchanged), so each motor's stored
\* speed is always the argument of its latest run, 0 if none.
C2_RunWritesOnlySelf ==
    /\ [](\A m \in 1..Len(motors) : motors[m].speed = lastCmd[m])
    /\ [][RunFrame]_vars

\* motor 1 has just been commanded while motor 2 keeps a nonzero speed
C2_Witness ==
    /\ Len(motors) = 2
    /\ lastOp = "run" /\ lastArg.m = 1 /\ lastArg.speed = 4
    /\ motors[2].speed = -1
    /\ motors[1].speed = 4

---------------------------------------------------------------------------
(* Claims about follow_line and the classifiers (SpecLine) *)

\* the sum of channel c over the sensor's frame, and its pixel count
Total(c) == SumSeq(Channel(image, c))
Pixels   == image.res * image.res

\* the red percentage 100 * Total(1) / (255 * Pixels) against the threshold
ReflectionBelow   == Pixels > 0 /\ 100 * Total(1) < threshold * 255 * Pixels
ReflectionAtLeast == Pixels > 0 /\ 100 * Total(1) >= threshold * 255 * Pixels

CycleDone == lastOp = "follow_line" /\ outcome = "ok"

\* C3: a follow_line cycle with reflection below 40 ends with the signal
\* (left -1, right 4), with reflection at or above 40 (exactly 40 included)
\* with (4, -1), whatever the earlier cycles did.
C3_FinalSetpoints ==
    CycleDone =>
        /\ ReflectionBelow   => sent[Len(sent)] = MotorsSignal(<<-1, 4>>)
        /\ ReflectionAtLeast => sent[Len(sent)] = MotorsSignal(<<4, -1>>)

\* reflection exactly 40 (red 102 of 255) after a cycle that had turned left
C3_Witness ==
    /\ CycleDone
    /\ image.px = <<<<<<102, 0, 0>>>>>>
    /\ sent = <<MotorsSignal(<<4, 4>>), MotorsSignal(<<4, -1>>)>>

\* C7: a follow_line cycle whose camera read fails completes and commands
\* both motors.
C7_FailedReadTolerated ==
    (lastOp = "follow_line" /\ lastArg.rc # 0) =>
        (outcome = "ok" /\ Len(sent) = 2)

Classified(op) == lastOp = op /\ outcome = "ok"

Pivot(sig) ==
    /\ sig.left * sig.right < 0
    /\ {sig.left * sig.left, sig.right * sig.right} = {1, 16}

\* C9 as stated: every signal of every follow_line cycle is a pivot, with
\* magnitudes 1 and 4 on opposing wheels.
C9_EverySignalPivots ==
    CycleDone => \A i \in 1..Len(sent) : Pivot(sent[i])

\* a completed follow_line step: two signals, the first with the new left
\* speed and the right speed of before the cycle, the last a pivot
CycleSignals ==
    (lastOp' = "follow_line" /\ outcome' = "ok") =>
        /\ Len(sent') = 2
        /\ sent'[1] = MotorsSignal(<<motors'[LeftMotor].speed,
                                     motors[RightMotor].speed>>)
        /\ sent'[2] = MotorsSignal(<<motors'[LeftMotor].speed,
                                     motors'[RightMotor].speed>>)
        /\ Pivot(sent'[2])

\* C9 amended: each follow_line cycle sends two signals; the last one is a
\* pivot with magnitudes 1 and 4 on opposing wheels, the first one pairs the
\* new left speed with the right speed left by the previous cycle (0 at the
\* start), so it is a pivot only when the decision did not change.
C9_LastSignalPivots == [][CycleSignals]_vars

\* the decision changed from left to right: the first signal is (4, 4)
C9_Witness ==
    /\ CycleDone
    /\ sent[1] = MotorsSignal(<<4, 4>>)
    /\ Pivot(sent[2])

---------------------------------------------------------------------------
(* Claims about the frame decoder (SpecDecode) *)

Decoded == lastOp = "_get_image_sensor" /\ lastArg.rc = 0

\* C4: a buffer of length 3 * R^2 with R >= 1 decodes to an R x R x 3 frame
\* of values in 0..255; every other length, 0 included, fails.
C4_DecodeOrFail ==
    Decoded =>
        LET n == Len(lastArg.buf)
        IN  IF \E R \in 1..n : n = 3 * R * R
            THEN /\ outcome = "ok"
                 /\ image.kind = "frame"
                 /\ 3 * image.res * image.res = n
                 /\ Len(image.px) = image.res
                 /\ \A i \in 1..image.res :
                       /\ Len(image.px[i]) = image.res
                       /\ \A j \in 1..image.res :
                             /\ Len(image.px[i][j]) = 3
                             /\ \A c \in 1..3 : image.px[i][j][c] \in 0..255
            ELSE outcome = "raised"

\* C10: the frame's entry [i][j][c] is the sample at flat index
\* 3 * ((R - 1 - i) * R + j) + c, times 255 and truncated: rows reversed,
\* columns and channels in order; reversing the rows again gives the
\* buffer's row order.
C10_RowFlipLayout ==
    (Decoded /\ outcome = "ok") =>
        LET R   == image.res
            buf == lastArg.buf
            \* the buffer's 0-based entry k, scaled as the decoder scales it
            at(k)  == (buf[k + 1] * 255) \div 1000
            back   == [i \in 1..R |-> image.px[R + 1 - i]]
        IN  \A i \in 0..(R - 1), j \in 0..(R - 1), c \in 0..2 :
               /\ image.px[i + 1][j + 1][c + 1] = at(3 * ((R - 1 - i) * R + j) + c)
               /\ back[i + 1][j + 1][c + 1] = at(3 * (i * R + j) + c)

\* a 2 x 2 frame whose rows and whose columns differ, with truncated values
C10_Witness ==
    /\ Decoded /\ outcome = "ok"
    /\ image.res = 2
    /\ image.px[1] # image.px[2]
    /\ image.px[1][1] # image.px[1][2]
    /\ image.px[1][1][1] = 101

---------------------------------------------------------------------------
(* Claims about the rover's getters (SpecSensors) *)

\* C6: on a nonzero return code get_bumper_sensor returns [0, 0, 0] and
\* get_sonar_sensor returns -1, without raising and without unpacking; on
\* return code 0 each returns the unpacked floats of the signal.
C6_SentinelOnFailedRead ==
    /\ lastOp = "get_bumper_sensor" =>
          /\ outcome = "ok"
          /\ unpacked = (wire.rc = 0)
          /\ ret = IF wire.rc = 0 THEN RetList(simxUnpackFloats(wire.bytes))
                                  ELSE RetList(<<0, 0, 0>>)
    /\ lastOp = "get_sonar_sensor" =>
          /\ outcome = "ok"
          /\ unpacked = (wire.rc = 0)
          /\ ret = IF wire.rc = 0 THEN RetList(simxUnpackFloats(wire.bytes))
                                  ELSE RetNumber(-1)

\* a failed bumper read that came with bytes: the zero vector, nothing unpacked
C6_Witness ==
    /\ lastOp = "get_bumper_sensor"
    /\ wire.rc # 0
    /\ Len(wire.bytes) >= 4
    /\ ret = RetList(<<0, 0, 0>>)
    /\ ~unpacked

---------------------------------------------------------------------------
(* Claims about the scripts (SpecMain) *)

Printed(line) == \E i \in 1..Len(out) : out[i] = line

ConnectFailed == pc # "start" /\ clientID = -1

C5_State ==
    /\ ConnectFailed =>
          /\ pc \in {"L58", "L74", "W98", "W109", "done"}
          /\ touched = {} /\ sent = <<>> /\ motors = <<>> /\ image = NoImage
          /\ pc = "done" =>
                out = <<"Failed connecting to remote API server", "Program ended">>
    /\ (pc # "start" /\ clientID # -1) =>
          /\ ~Printed("Program ended")
          /\ ~Printed("Failed connecting to remote API server")
          /\ pc # "done"
          /\ pc \notin {"L58", "W98"} => out = <<"Connected">>

\* a step taken inside the control loop stays inside it
LoopKept == (pc \in LoopPcs) => (pc' \in LoopPcs)

\* C5: in both scripts a failed connect (-1) prints the failure line and
\* then 'Program ended' and the script ends, never entering the loop, never
\* sending "motors" and never reading a sensor; a successful connect prints
\* 'Connected', 'Program ended' is never printed and the loop, once
\* entered, is never left.
C5_ConnectOutcome ==
    /\ []C5_State
    /\ [][LoopKept]_vars
    /\ (ConnectFailed ~> pc = "done")

\* the line follower connected with handle 0 and is inside its loop
C5_Witness ==
    /\ script = "lineMaze"
    /\ clientID = 0
    /\ pc = "L70"
    /\ touched = {"Sensors", "motors"}
    /\ out = <<"Connected">>

=============================================================================
